---- MODULE Spec2Model ----
(***************************************************************************)
(* Model of src/transit.py: the TransitAPI arrival aggregator              *)
(* (get_bus_arrival_times, seconds_to_minutes, the two upstream calls) and *)
(* the two Flask endpoints /api/bus-arrivals and /api/nearby-stops.        *)
(*                                                                         *)
(* One HTTP request is followed from the handler's entry to its reply.     *)
(* JSON objects are functions from key names to values, so that a missing  *)
(* key is a key outside DOMAIN.  Python's None is <<>> where an optional   *)
(* value is read with dict.get (a present value v is <<v>>), and the       *)
(* record None where a whole upstream response is None.                    *)
(***************************************************************************)
EXTENDS Integers, Sequences, FiniteSets, TLC

VARIABLES
    endpoint,       \* the route Flask dispatched to
    lat,            \* the handler's lat: the query value, then float(lat)
    lon,            \* the handler's lon: the query value, then float(lon)
    pc,             \* position of the handler
    stops_data,     \* get_bus_arrival_times / get_nearby_stops: stops_data
    stop_index,     \* position of `for stop in stops_data["stops"]` (1-based)
    pending,        \* schedule items of the current stop still to be visited
    arrival_info,   \* get_bus_arrival_times: arrival_info, in traversal order
    current_time,   \* seconds_to_minutes: current_time of the latest call
    response,       \* get_bus_arrival_times: response
    reply,          \* what Flask sends: status_code and JSON body
    calls,          \* history: upstream requests issued so far, with their outcome
    per_stop        \* history: the records each visited stop appended

vars == <<endpoint, lat, lon, pc, stops_data, stop_index, pending, arrival_info,
          current_time, response, reply, calls, per_stop>>

-----------------------------------------------------------------------------
(* Bounds of the model *)

MaxStops == 2       \* longest "stops" collection of a nearby_stops response
MaxItems == 1       \* most schedule items in one itinerary of OneRoute

(* Values time.time() may return, truncated to int, at any read. *)
ClockValues == {0, 61}

-----------------------------------------------------------------------------
(* Python helpers *)

None == [none |-> TRUE]

(* dict.get(key) with the default None: <<>> for None, <<v>> for v *)
Get(d, key) == IF key \in DOMAIN d THEN <<d[key]>> ELSE <<>>

(* dict.get(key, default) *)
GetOr(d, key, default) == IF key \in DOMAIN d THEN d[key] ELSE default

(* truth value of an optional number: None and 0 are falsy *)
TruthyNumber(o) == o /= <<>> /\ o[1] /= 0

(* truth value of an upstream response: None and the empty dict are falsy *)
TruthyDict(d) == d /= None /\ DOMAIN d /= {}

MaxOf(a, b) == IF a >= b THEN a ELSE b

SeqsUpTo(S, n) == UNION {[1..k -> S] : k \in 0..n}

-----------------------------------------------------------------------------
(* Request parameters.  A string is the sequence of its characters; the   *)
(* None that request.args.get answers for a missing parameter is Absent;   *)
(* a float is written <<"float">> followed by the characters of its repr.  *)

Digits == {"0", "1"}

Absent == <<"None">>

QueryValues ==
    { Absent,
      <<"1">>,
      <<"+", "1", ".", "0">>,
      <<"1", ".">>,
      <<>>,
      <<"a">>,
      <<"1", "a">>,
      <<"-">>,
      <<".">>,
      <<"1", ".", "1", ".">> }

(* float(s) succeeds: an optional sign, then digits with at most one point *)
(* and at least one digit.  (The characters modelled are digits, sign,     *)
(* point and a letter; exponents, "inf", "nan", blanks need others.)       *)
Unsigned(s) ==
    IF s /= <<>> /\ s[1] \in {"-", "+"} THEN Tail(s) ELSE s

FloatParses(s) ==
    LET u == Unsigned(s)
    IN  /\ \A k \in 1..Len(u) : u[k] \in Digits \cup {"."}
        /\ \E k \in 1..Len(u) : u[k] \in Digits
        /\ Cardinality({k \in 1..Len(u) : u[k] = "."}) <= 1

(* float(s) of a string that parses, in tenths (the strings modelled have  *)
(* at most one digit after the point)                                      *)
DigitValue(c) == IF c = "1" THEN 1 ELSE 0

RECURSIVE Decimal(_)
Decimal(digits) ==
    IF digits = <<>> THEN 0
    ELSE 10 * Decimal(SubSeq(digits, 1, Len(digits) - 1)) + DigitValue(digits[Len(digits)])

FloatValue(s) ==
    LET u == Unsigned(s)
        point == IF \E k \in 1..Len(u) : u[k] = "."
                 THEN CHOOSE k \in 1..Len(u) : u[k] = "."
                 ELSE Len(u) + 1
        whole == SubSeq(u, 1, point - 1)
        fraction == SubSeq(u, point + 1, Len(u))
        tenths == 10 * Decimal(whole) + (IF fraction = <<>> THEN 0 ELSE DigitValue(fraction[1]))
    IN  IF s /= <<>> /\ s[1] = "-" THEN 0 - tenths ELSE tenths

DigitChars == <<"0", "1", "2", "3", "4", "5", "6", "7", "8", "9">>

RECURSIVE NatRepr(_)
NatRepr(n) ==
    IF n < 10 THEN <<DigitChars[n + 1]>>
    ELSE NatRepr(n \div 10) \o <<DigitChars[(n % 10) + 1]>>

(* float(s): the float object, by its repr *)
Float(s) ==
    LET value == FloatValue(s)
        magnitude == IF value < 0 THEN 0 - value ELSE value
    IN  <<"float">> \o (IF value < 0 THEN <<"-">> ELSE <<>>)
            \o NatRepr(magnitude \div 10) \o <<".">> \o NatRepr(magnitude % 10)

-----------------------------------------------------------------------------
(* Upstream responses *)

StopA == [stop_name |-> "Main St", global_stop_id |-> "A", distance |-> 50]
StopB == [stop_name |-> "Oak Ave", global_stop_id |-> "B", distance |-> 20]
(* a stop of a changed upstream schema: no stop_name *)
StopC == [global_stop_id |-> "C", distance |-> 70]

Stops == {StopA, StopB, StopC}

(* what get_nearby_stops may return.  None stands for every caught         *)
(* RequestException: a network error, a non-2xx status (raise_for_status)  *)
(* and a body that is no JSON (requests' JSONDecodeError is a              *)
(* RequestException since requests 2.27).                                  *)
StopsResponses ==
    { None, <<>>, [message |-> "no data"] }
        \cup { [stops |-> s] : s \in SeqsUpTo(Stops, MaxStops) }

ScheduleItems ==
    { [departure_time |-> 121, scheduled_departure_time |-> 60, is_real_time |-> TRUE],
      [scheduled_departure_time |-> 60],
      [is_real_time |-> FALSE],
      [departure_time |-> 0, scheduled_departure_time |-> 60],
      [departure_time |-> 0, is_real_time |-> TRUE] }

(* one route with one itinerary holding the schedule items s *)
OneRoute(s) ==
    << [route_long_name |-> "Route 10", route_short_name |-> "10",
        itineraries |-> << [direction_headsign |-> "Downtown", schedule_items |-> s] >>] >>

(* two routes, the first with two itineraries, the second with none of the *)
(* optional names: a later departure is listed before an earlier one       *)
TwoRoutes ==
    << [route_long_name |-> "Route 10", route_short_name |-> "10",
        itineraries |->
            << [direction_headsign |-> "Downtown",
                schedule_items |-> << [departure_time |-> 121, is_real_time |-> TRUE] >>],
               [direction_headsign |-> "Uptown", schedule_items |-> <<>>] >>],
       [itineraries |-> << [schedule_items |-> << [scheduled_departure_time |-> 60] >>] >>] >>

(* what get_stop_departures may return *)
DeparturesResponses ==
    { None, <<>>, [message |-> "no data"],
      [route_departures |-> <<>>],
      [route_departures |-> << [route_short_name |-> "7"] >>],
      [route_departures |-> << [route_short_name |-> "7",
                                itineraries |-> << [direction_headsign |-> "Loop"] >>] >>],
      [route_departures |-> TwoRoutes] }
        \cup { [route_departures |-> OneRoute(s)] : s \in SeqsUpTo(ScheduleItems, MaxItems) }

-----------------------------------------------------------------------------
(* TransitAPI.seconds_to_minutes, with the clock value it reads *)

(* seconds_to_minutes without the clamp at zero *)
seconds_to_minutes_unclamped(seconds_timestamp, now) ==
    (seconds_timestamp - now) \div 60

seconds_to_minutes(seconds_timestamp, now) ==
    LET seconds_from_now == seconds_timestamp - now
    IN  MaxOf(0, seconds_from_now \div 60)

(* datetime.fromtimestamp(t).strftime("%I:%M %p"), for a clock set to UTC *)
strftime(t) ==
    LET hour == (t \div 3600) % 24
        hour12 == IF hour % 12 = 0 THEN 12 ELSE hour % 12
    IN  <<hour12, (t \div 60) % 60, IF hour < 12 THEN "AM" ELSE "PM">>

-----------------------------------------------------------------------------
(* The nested loops over routes, itineraries and schedule items of one     *)
(* stop_departures response: the schedule items in the order the loops     *)
(* visit them, each with the names read from its route and itinerary.      *)

ItinerarySchedules(route, itinerary) ==
    LET items == GetOr(itinerary, "schedule_items", <<>>)
    IN  [k \in 1..Len(items) |->
            [route_name |-> GetOr(route, "route_long_name", "Unknown Route"),
             route_short_name |-> GetOr(route, "route_short_name", ""),
             direction |-> GetOr(itinerary, "direction_headsign", "Unknown Direction"),
             schedule |-> items[k]]]

RECURSIVE RouteSchedules(_, _)
RouteSchedules(route, itineraries) ==
    IF itineraries = <<>> THEN <<>>
    ELSE ItinerarySchedules(route, Head(itineraries))
            \o RouteSchedules(route, Tail(itineraries))

RECURSIVE Schedules(_)
Schedules(route_departures) ==
    IF route_departures = <<>> THEN <<>>
    ELSE RouteSchedules(Head(route_departures),
                        GetOr(Head(route_departures), "itineraries", <<>>))
            \o Schedules(Tail(route_departures))

-----------------------------------------------------------------------------
(* list.sort(key=lambda x: x["arrival_in_minutes"]): a stable sort *)

(* an insertion that puts a record before the records of equal key *)
RECURSIVE InsertBeforeEqual(_, _)
InsertBeforeEqual(sorted, x) ==
    IF sorted = <<>> THEN <<x>>
    ELSE IF Head(sorted).arrival_in_minutes < x.arrival_in_minutes
         THEN <<Head(sorted)>> \o InsertBeforeEqual(Tail(sorted), x)
         ELSE <<x>> \o sorted

RECURSIVE InsertByArrival(_, _)
InsertByArrival(sorted, x) ==
    IF sorted = <<>> THEN <<x>>
    ELSE IF Head(sorted).arrival_in_minutes <= x.arrival_in_minutes
         THEN <<Head(sorted)>> \o InsertByArrival(Tail(sorted), x)
         ELSE <<x>> \o sorted

(* the list left as collected *)
Unsorted(list) == list

RECURSIVE SortByArrival(_)
SortByArrival(list) ==
    IF list = <<>> THEN <<>>
    ELSE InsertByArrival(SortByArrival(SubSeq(list, 1, Len(list) - 1)), list[Len(list)])

-----------------------------------------------------------------------------
(* The request *)

Endpoints == {"/api/bus-arrivals", "/api/nearby-stops"}

Init ==
    /\ endpoint \in Endpoints
    /\ lat \in QueryValues
    /\ lon \in QueryValues
    /\ pc = "start"
    /\ stops_data = None
    /\ stop_index = 0
    /\ pending = <<>>
    /\ arrival_info = <<>>
    /\ current_time = 0
    /\ response = <<>>
    /\ reply = [status_code |-> 0, body |-> <<>>]
    /\ calls = <<>>
    /\ per_stop = <<>>

(* get_bus_arrival_times: the response dict built on entry *)
NewResponse(latitude, longitude) ==
    [success |-> FALSE, message |-> "", error |-> "None",
     data |-> [location |-> [latitude |-> latitude, longitude |-> longitude],
               stops_count |-> 0, arrivals |-> <<>>]]

(* get_bus_arrivals: status_code = 200 if result["success"] else 404 *)
StatusCode(result) == IF result.success THEN 200 ELSE 404

(* the outcome of an upstream call, as the caller's test sees it *)
Outcome(data, key) ==
    IF data = None THEN "none"
    ELSE IF ~TruthyDict(data) \/ key \notin DOMAIN data THEN "lacking"
    ELSE "ok"

(* a check of the parameters that forgets to look at lon's value *)
ParameterErrorLatOnly(la, lo) ==
    IF la = Absent \/ lo = Absent THEN "MISSING_PARAMETERS"
    ELSE IF ~FloatParses(la) THEN "INVALID_PARAMETERS"
    ELSE "None"

(* get_bus_arrivals and get_nearby_stops: the error the handler answers    *)
(* for the query values la and lo, "None" when it goes on                  *)
ParameterError(la, lo) ==
    IF la = Absent \/ lo = Absent THEN "MISSING_PARAMETERS"
    ELSE IF ~FloatParses(la) \/ ~FloatParses(lo) THEN "INVALID_PARAMETERS"
    ELSE "None"

(* get_bus_arrivals and get_nearby_stops: reading lat and lon (the two    *)
(* handlers share this code).  lat = float(lat) has run when float(lon)    *)
(* raises.  A request that passes enters get_bus_arrival_times, or         *)
(* get_nearby_stops' upstream call.                                        *)
ParseParameters ==
    /\ pc = "start"
    /\ LET error == ParameterError(lat, lon)
       IN  IF error /= "None"
           THEN /\ reply' = [status_code |-> 400,
                             body |-> [success |-> FALSE, error |-> error]]
                /\ pc' = "done"
                /\ lat' = IF error = "INVALID_PARAMETERS" /\ FloatParses(lat)
                          THEN Float(lat) ELSE lat
                /\ UNCHANGED <<lon, response>>
           ELSE /\ pc' = "nearby_stops"
                /\ lat' = Float(lat)
                /\ lon' = Float(lon)
                /\ response' = IF endpoint = "/api/bus-arrivals"
                               THEN NewResponse(lat', lon') ELSE response
                /\ UNCHANGED reply
    /\ UNCHANGED <<endpoint, stops_data, stop_index, pending, arrival_info,
                   current_time, calls, per_stop>>

(* get_nearby_stops (the endpoint): the upstream call and the reply *)
NearbyStopsEndpoint ==
    /\ pc = "nearby_stops"
    /\ endpoint = "/api/nearby-stops"
    /\ \E data \in StopsResponses :
          /\ stops_data' = data
          /\ calls' = Append(calls, [url |-> "nearby_stops", id |-> "",
                                     outcome |-> Outcome(data, "stops")])
          /\ reply' = IF TruthyDict(data) /\ "stops" \in DOMAIN data
                      THEN [status_code |-> 200, body |-> [success |-> TRUE, data |-> data]]
                      ELSE [status_code |-> 404,
                            body |-> [success |-> FALSE, error |-> "STOPS_NOT_FOUND"]]
    /\ pc' = "done"
    /\ UNCHANGED <<endpoint, lat, lon, stop_index, pending, arrival_info, current_time,
                   response, per_stop>>

(* get_bus_arrival_times: the nearby-stops call and the test on its result *)
GetNearbyStops ==
    /\ pc = "nearby_stops"
    /\ endpoint = "/api/bus-arrivals"
    /\ \E data \in StopsResponses :
          /\ stops_data' = data
          /\ calls' = Append(calls, [url |-> "nearby_stops", id |-> "",
                                     outcome |-> Outcome(data, "stops")])
          /\ IF ~TruthyDict(data) \/ "stops" \notin DOMAIN data
             THEN /\ response' = [response EXCEPT
                                     !.message = "No stops found or error retrieving stops",
                                     !.error = "STOPS_NOT_FOUND"]
                  /\ reply' = [status_code |-> StatusCode(response'), body |-> response']
                  /\ pc' = "done"
                  /\ UNCHANGED stop_index
             ELSE /\ response' = [response EXCEPT !.data.stops_count = Len(data.stops)]
                  /\ stop_index' = 1
                  /\ pc' = "for_stop"
                  /\ UNCHANGED reply
    /\ arrival_info' = <<>>
    /\ UNCHANGED <<endpoint, lat, lon, pending, current_time, per_stop>>

(* the stop the loop is at *)
stop == stops_data.stops[stop_index]

InLoop ==
    /\ pc = "for_stop"
    /\ stop_index <= Len(stops_data.stops)

(* get_bus_arrival_times: stop["stop_name"], stop["global_stop_id"] and   *)
(* stop["distance"] of a stop lacking one of them raise KeyError, which    *)
(* nothing catches: Flask answers 500.                                     *)
StopKeyError ==
    /\ InLoop
    /\ ~ ({"stop_name", "global_stop_id", "distance"} \subseteq DOMAIN stop)
    /\ pc' = "raised"
    /\ reply' = [status_code |-> 500, body |-> <<>>]
    /\ UNCHANGED <<endpoint, lat, lon, stops_data, stop_index, pending, arrival_info,
                   current_time, response, calls, per_stop>>

(* where the loop goes once the current stop has no schedule item left *)
NextStop ==
    /\ stop_index' = stop_index + 1
    /\ pc' = "for_stop"

(* get_bus_arrival_times: one stop's departures call and the test on it *)
GetStopDepartures ==
    /\ InLoop
    /\ {"stop_name", "global_stop_id", "distance"} \subseteq DOMAIN stop
    /\ \E departures_data \in DeparturesResponses :
          /\ calls' = Append(calls, [url |-> "stop_departures", id |-> stop.global_stop_id,
                                     outcome |-> Outcome(departures_data, "route_departures")])
          /\ IF ~TruthyDict(departures_data) \/ "route_departures" \notin DOMAIN departures_data
             THEN /\ NextStop
                  /\ UNCHANGED pending
             ELSE LET schedules == Schedules(departures_data.route_departures)
                  IN  IF schedules = <<>>
                      THEN NextStop /\ UNCHANGED pending
                      ELSE /\ pending' = schedules
                           /\ pc' = "for_schedule"
                           /\ UNCHANGED stop_index
    /\ per_stop' = Append(per_stop, <<>>)
    /\ UNCHANGED <<endpoint, lat, lon, stops_data, arrival_info, current_time, response, reply>>

(* the record appended for a schedule item with a departure time *)
ArrivalRecord(entry, actual_departure_time, now) ==
    [stop_name |-> stop.stop_name,
     global_stop_id |-> stop.global_stop_id,
     route_name |-> entry.route_name,
     route_short_name |-> entry.route_short_name,
     direction |-> entry.direction,
     arrival_in_minutes |-> seconds_to_minutes(actual_departure_time, now),
     is_real_time |-> GetOr(entry.schedule, "is_real_time", FALSE),
     distance_meters |-> stop.distance,
     departure_timestamp |-> actual_departure_time,
     scheduled_time |-> strftime(actual_departure_time)]

(* actual_departure_time = departure_time if departure_time else scheduled_time *)
ActualDepartureTime(schedule) ==
    LET departure_time == Get(schedule, "departure_time")
        scheduled_time == Get(schedule, "scheduled_departure_time")
    IN  IF TruthyNumber(departure_time) THEN departure_time ELSE scheduled_time

(* get_bus_arrival_times: the body of the innermost loop, for one item *)
ScheduleItem ==
    /\ pc = "for_schedule"
    /\ LET entry == Head(pending)
           actual_departure_time == ActualDepartureTime(entry.schedule)
       IN  IF TruthyNumber(actual_departure_time)
           THEN \E now \in ClockValues :
                  LET record == ArrivalRecord(entry, actual_departure_time[1], now)
                  IN  /\ current_time' = now
                      /\ arrival_info' = Append(arrival_info, record)
                      /\ per_stop' = [per_stop EXCEPT ![Len(per_stop)] = Append(@, record)]
           ELSE UNCHANGED <<current_time, arrival_info, per_stop>>
    /\ pending' = Tail(pending)
    /\ IF Tail(pending) = <<>> THEN NextStop ELSE UNCHANGED <<pc, stop_index>>
    /\ UNCHANGED <<endpoint, lat, lon, stops_data, response, reply, calls>>

(* get_bus_arrival_times after the loop: sort, fill the response, return;  *)
(* get_bus_arrivals: the status code                                       *)
Return ==
    /\ pc = "for_stop"
    /\ stop_index > Len(stops_data.stops)
    /\ response' = [response EXCEPT !.success = TRUE,
                                    !.message = "Found upcoming departures",
                                    !.data.arrivals = SortByArrival(arrival_info)]
    /\ reply' = [status_code |-> StatusCode(response'), body |-> response']
    /\ pc' = "done"
    /\ UNCHANGED <<endpoint, lat, lon, stops_data, stop_index, pending, arrival_info,
                   current_time, calls, per_stop>>

Next ==
    \/ ParseParameters
    \/ NearbyStopsEndpoint
    \/ GetNearbyStops
    \/ StopKeyError
    \/ GetStopDepartures
    \/ ScheduleItem
    \/ Return

Spec == Init /\ [][Next]_vars

-----------------------------------------------------------------------------
(* Vocabulary of the properties *)

BusArrivals == endpoint = "/api/bus-arrivals"

(* the request has passed the parameter checks and come to an end, by a    *)
(* return of get_bus_arrival_times or by an exception                      *)
Finished == BusArrivals /\ pc \in {"done", "raised"} /\ reply.status_code /= 400

(* get_bus_arrival_times has returned its response *)
Returned == Finished /\ pc = "done"

arrivals == response.data.arrivals

Minutes(list) == {list[n].arrival_in_minutes : n \in 1..Len(list)}

IsSorted(list) ==
    \A i, j \in 1..Len(list) :
        i < j => list[i].arrival_in_minutes <= list[j].arrival_in_minutes

WithMinutes(list, m) == SelectSeq(list, LAMBDA record : record.arrival_in_minutes = m)

CountIn(list, x) == Cardinality({n \in 1..Len(list) : list[n] = x})

RECURSIVE Concat(_)
Concat(lists) ==
    IF lists = <<>> THEN <<>> ELSE Head(lists) \o Concat(Tail(lists))

(* the stop_departures calls issued so far, in order *)
DepartureCalls == SubSeq(calls, 2, Len(calls))

StopsFound == Outcome(stops_data, "stops") = "ok"

WellFormed(s) == {"stop_name", "global_stop_id", "distance"} \subseteq DOMAIN s

(* the strings of QueryValues that Python's float() rejects *)
NotNumbers ==
    { <<>>, <<"a">>, <<"1", "a">>, <<"-">>, <<".">>, <<"1", ".", "1", ".">> }

-----------------------------------------------------------------------------
(* C1: whatever the upstream answered and whatever the clock read, the     *)
(* arrivals list get_bus_arrival_times returns is sorted non-decreasing by *)
(* arrival_in_minutes.                                                     *)
C1_ArrivalsSorted == Returned => IsSorted(arrivals)

(* a returned list of three records or more that was collected out of order *)
C1_Witness ==
    /\ Returned
    /\ Len(arrivals) >= 3
    /\ ~IsSorted(arrival_info)

(* C2: when the nearby-stops call yields zero stops (it failed, lacks the  *)
(* stops collection, or the collection is empty), the result has           *)
(* success = false, error = "STOPS_NOT_FOUND" and no arrivals.             *)
C2_ZeroStopsNotFound ==
    (Returned /\ (~StopsFound \/ Len(stops_data.stops) = 0))
        => /\ response.success = FALSE
           /\ response.error = "STOPS_NOT_FOUND"
           /\ arrivals = <<>>

(* C3: if the departures call of a stop fails or lacks route_departures,   *)
(* that stop contributes no record, the request still succeeds, and the    *)
(* records of every other stop are in the returned arrivals.               *)
C3_FailureIsolated ==
    (Finished /\ \E k \in 1..Len(DepartureCalls) : DepartureCalls[k].outcome /= "ok")
        => /\ pc = "done"
           /\ response.success
           /\ Len(per_stop) = Len(stops_data.stops)
           /\ \A k \in 1..Len(per_stop) :
                 /\ DepartureCalls[k].outcome /= "ok" => per_stop[k] = <<>>
                 /\ \A n \in 1..Len(per_stop[k]) :
                       CountIn(arrivals, per_stop[k][n]) >= CountIn(per_stop[k], per_stop[k][n])

(* C3 where every stop of the collection carries its three fields: holds *)
C3_FailureIsolatedWellFormed ==
    (StopsFound /\ \A k \in 1..Len(stops_data.stops) : WellFormed(stops_data.stops[k]))
        => C3_FailureIsolated

(* C4: the latest record's arrival_in_minutes is max(0, floor((t - now) /  *)
(* 60)) for its departure_timestamp t and the clock value now read for it, *)
(* and no record's arrival_in_minutes is negative.                         *)
C4_MinutesFromNow ==
    /\ \A n \in 1..Len(arrival_info) : arrival_info[n].arrival_in_minutes >= 0
    /\ arrival_info /= <<>> =>
          LET record == arrival_info[Len(arrival_info)]
              seconds == record.departure_timestamp - current_time
              floor == CHOOSE q \in (0 - 10)..10 : 60 * q <= seconds /\ seconds < 60 * q + 60
          IN  record.arrival_in_minutes = IF floor < 0 THEN 0 ELSE floor

(* a record whose departure lies in the past of the clock read for it *)
C4_Witness ==
    /\ arrival_info /= <<>>
    /\ arrival_info[Len(arrival_info)].departure_timestamp < current_time
    /\ arrival_info[Len(arrival_info)].arrival_in_minutes = 0

(* C5: a schedule item with departure_time present yields one record with  *)
(* that timestamp; otherwise one with scheduled_departure_time present      *)
(* yields one record with that timestamp; one with neither yields none.     *)
(* Presence is meant, so also for the timestamp 0.                          *)
C5_DepartureTimeSelection ==
    [][pc = "for_schedule" =>
         LET schedule == Head(pending).schedule
             n == Len(arrival_info)
         IN  IF "departure_time" \in DOMAIN schedule
             THEN /\ Len(arrival_info') = n + 1
                  /\ arrival_info'[n + 1].departure_timestamp = schedule.departure_time
             ELSE IF "scheduled_departure_time" \in DOMAIN schedule
             THEN /\ Len(arrival_info') = n + 1
                  /\ arrival_info'[n + 1].departure_timestamp = schedule.scheduled_departure_time
             ELSE arrival_info' = arrival_info]_vars

(* C6: on both endpoints a request without lat or lon is answered 400      *)
(* MISSING_PARAMETERS, one with both where either is no number 400         *)
(* INVALID_PARAMETERS, and after a 400 no upstream call has been issued.   *)
C6_BadParameters ==
    /\ [][pc = "start" =>
            /\ (lat = Absent \/ lon = Absent)
                  => /\ reply'.status_code = 400
                     /\ reply'.body.error = "MISSING_PARAMETERS"
            /\ (lat /= Absent /\ lon /= Absent /\ (lat \in NotNumbers \/ lon \in NotNumbers))
                  => /\ reply'.status_code = 400
                     /\ reply'.body.error = "INVALID_PARAMETERS"]_vars
    /\ [](reply.status_code = 400 => (calls = <<>> /\ pc = "done"))

(* /api/nearby-stops has answered 400 INVALID_PARAMETERS *)
C6_Witness ==
    /\ endpoint = "/api/nearby-stops"
    /\ reply.status_code = 400
    /\ reply.body.error = "INVALID_PARAMETERS"
    /\ calls = <<>>

(* C7: /api/bus-arrivals with numeric lat and lon answers 404, success =   *)
(* false, STOPS_NOT_FOUND when no stops or no arrivals were found, and 200 *)
(* with success = true only with at least one arrival record.              *)
C7_NotFoundWithoutArrivals ==
    Returned =>
        /\ (~StopsFound \/ arrivals = <<>>)
              => /\ reply.status_code = 404
                 /\ reply.body.success = FALSE
                 /\ reply.body.error = "STOPS_NOT_FOUND"
        /\ (reply.status_code = 200 /\ reply.body.success) => arrivals /= <<>>

(* C8: no upstream outcome escapes: the request never ends in an uncaught  *)
(* exception, and the endpoints answer 200, 400 or 404 only.               *)
C8_NothingEscapes ==
    /\ pc /= "raised"
    /\ pc = "done" => reply.status_code \in {200, 400, 404}

(* C9: the returned arrivals are the stable sort by arrival_in_minutes of  *)
(* the records in traversal order (stops as received, then the items of    *)
(* each stop in loop order): sorted, and for each key the records of that  *)
(* key are those collected, in the order collected.                        *)
C9_StableSort ==
    Returned =>
        /\ IsSorted(arrivals)
        /\ Len(arrivals) = Len(arrival_info)
        /\ \A m \in Minutes(arrival_info) \cup Minutes(arrivals) :
              WithMinutes(arrivals, m) = WithMinutes(arrival_info, m)
        /\ arrival_info = Concat(per_stop)
        /\ \A k \in 1..Len(per_stop) : \A n \in 1..Len(per_stop[k]) :
              per_stop[k][n].global_stop_id = stops_data.stops[k].global_stop_id

(* two different records of equal key were collected before one of a       *)
(* smaller key                                                             *)
C9_Witness ==
    /\ Returned
    /\ \E i, j, k \in 1..Len(arrival_info) :
          /\ i < j /\ j < k
          /\ arrival_info[i] /= arrival_info[j]
          /\ arrival_info[i].arrival_in_minutes = arrival_info[j].arrival_in_minutes
          /\ arrival_info[k].arrival_in_minutes < arrival_info[i].arrival_in_minutes

(* C10: one nearby-stops call comes first; if it fails or lacks the stops  *)
(* collection no stop-departures call follows; otherwise one call per      *)
(* entry of the collection, in received order and never repeated, and the  *)
(* reported stops_count is the number of entries.                          *)
C10_CallOrder ==
    (BusArrivals /\ calls /= <<>>) =>
        /\ calls[1].url = "nearby_stops"
        /\ ~StopsFound => Len(calls) = 1
        /\ \A k \in 1..Len(DepartureCalls) :
              /\ DepartureCalls[k].url = "stop_departures"
              /\ k <= Len(stops_data.stops)
              /\ DepartureCalls[k].id = stops_data.stops[k].global_stop_id
        /\ (Finished /\ StopsFound) =>
              /\ Len(DepartureCalls) = Len(stops_data.stops)
              /\ response.data.stops_count = Len(stops_data.stops)

(* C10 where every stop of the collection carries its three fields: holds *)
C10_CallOrderWellFormed ==
    (StopsFound /\ \A k \in 1..Len(stops_data.stops) : WellFormed(stops_data.stops[k]))
        => C10_CallOrder

====
